---------------------------- MODULE Spec2Model ----------------------------
(***************************************************************************)
(* Model of the VibeVideo Flask backend (src/main.py): the natural-language *)
(* command resolver (PHRASE_TO_CMD, INTENT_VERBS), and the /process and     *)
(* /merge request handlers running against the shared Processing Engine     *)
(* handle `iap` and the shared ephemeral storage directory /tmp.            *)
(*                                                                         *)
(* Text is modelled as a sequence of one-character strings, so that        *)
(* lower-casing, stripping, substring search and the regular expressions   *)
(* of the pattern table are computed character by character.               *)
(***************************************************************************)
EXTENDS Integers, Sequences, FiniteSets, TLC

\* ------------------------------------------------------------------ text
\* The words that occur in the pattern table, the verb list and the
\* messages, spelled as character sequences.
w_remove == <<"r","e","m","o","v","e">>
w_reduce == <<"r","e","d","u","c","e">>
w_clean == <<"c","l","e","a","n">>
w_denoise == <<"d","e","n","o","i","s","e">>
w_background == <<"b","a","c","k","g","r","o","u","n","d">>
w_noise == <<"n","o","i","s","e">>
w_hum == <<"h","u","m">>
w_s == <<"s">>
w_buzz == <<"b","u","z","z">>
w_hiss == <<"h","i","s","s">>
w_trim == <<"t","r","i","m">>
w_cut == <<"c","u","t">>
w_long == <<"l","o","n","g">>
w_silence == <<"s","i","l","e","n","c","e">>
w_stutter == <<"s","t","u","t","t","e","r">>
w_stutters == <<"s","t","u","t","t","e","r","s">>
w_stuttering == <<"s","t","u","t","t","e","r","i","n","g">>
w_filler == <<"f","i","l","l","e","r">>
w_um == <<"u","m">>
w_uh == <<"u","h">>
w_like == <<"l","i","k","e">>
w_sort == <<"s","o","r","t">>
w_of == <<"o","f">>
w_kinda == <<"k","i","n","d","a">>
w_mouth == <<"m","o","u","t","h">>
w_sound == <<"s","o","u","n","d">>
w_click == <<"c","l","i","c","k">>
w_smack == <<"s","m","a","c","k">>
w_hesitation == <<"h","e","s","i","t","a","t","i","o","n">>
w_hesitations == <<"h","e","s","i","t","a","t","i","o","n","s">>
w_hesitant == <<"h","e","s","i","t","a","n","t">>
w_breath == <<"b","r","e","a","t","h">>
w_breathing == <<"b","r","e","a","t","h","i","n","g">>
w_normalize == <<"n","o","r","m","a","l","i","z","e">>
w_d == <<"d">>
w_level == <<"l","e","v","e","l">>
w_match == <<"m","a","t","c","h">>
w_ai == <<"a","i">>
w_enhance == <<"e","n","h","a","n","c","e">>
w_with == <<"w","i","t","h">>
w_cleanup == <<"c","l","e","a","n","u","p">>
w_preserve == <<"p","r","e","s","e","r","v","e">>
w_keep == <<"k","e","e","p">>
w_music == <<"m","u","s","i","c">>
w_transcribe == <<"t","r","a","n","s","c","r","i","b","e">>
w_transcription == <<"t","r","a","n","s","c","r","i","p","t","i","o","n">>
w_speech == <<"s","p","e","e","c","h">>
w_to == <<"t","o">>
w_text == <<"t","e","x","t">>
w_apply == <<"a","p","p","l","y">>
w_do == <<"d","o">>
w_run == <<"r","u","n">>
w_perform == <<"p","e","r","f","o","r","m">>
w_process == <<"p","r","o","c","e","s","s">>
w_all == <<"a","l","l">>
w_comprehensive == <<"c","o","m","p","r","e","h","e","n","s","i","v","e">>
w_everything == <<"e","v","e","r","y","t","h","i","n","g">>
w_merge == <<"m","e","r","g","e">>
w_combine == <<"c","o","m","b","i","n","e">>
w_join == <<"j","o","i","n">>
w_concatenate == <<"c","o","n","c","a","t","e","n","a","t","e">>
w_splice == <<"s","p","l","i","c","e">>
w_audio == <<"a","u","d","i","o">>
w_video == <<"v","i","d","e","o">>
w_file == <<"f","i","l","e">>
w_files == <<"f","i","l","e","s">>
w_clip == <<"c","l","i","p">>
w_rm == <<"r","m">>
w_bg == <<"b","g">>
w_execute == <<"e","x","e","c","u","t","e">>
w_start == <<"s","t","a","r","t">>
w_begin == <<"b","e","g","i","n">>
w_you == <<"y","o","u">>
w_know == <<"k","n","o","w">>
w_hello == <<"h","e","l","l","o">>
w_there == <<"t","h","e","r","e">>
w_these == <<"t","h","e","s","e">>
w_REMOVE == <<"R","E","M","O","V","E">>
sp == <<" ">>
hy == <<"-">>

UpperCs == <<"A","B","C","D","E","F","G","H","I","J","K","L","M",
             "N","O","P","Q","R","S","T","U","V","W","X","Y","Z">>
LowerCs == <<"a","b","c","d","e","f","g","h","i","j","k","l","m",
             "n","o","p","q","r","s","t","u","v","w","x","y","z">>
DigitCs == <<"0","1","2","3","4","5","6","7","8","9">>
Digits == {DigitCs[k] : k \in 1..10}
Whitespace == {" ", "\t", "\n", "\r"}

Letters == {UpperCs[k] : k \in 1..26} \cup {LowerCs[k] : k \in 1..26}

\* re's \w for the characters of the model: letters, digits, underscore.
WordChars == Letters \cup Digits \cup {"_"}
IsWordChar(c) == c \in WordChars

\* str.lower(), one character.
LowerChar(c) ==
  IF \E k \in 1..26 : c = UpperCs[k]
  THEN LowerCs[CHOOSE k \in 1..26 : c = UpperCs[k]]
  ELSE c

\* str.lower()
Lower(t) == SubSeq([i \in 1..Len(t) |-> LowerChar(t[i])], 1, Len(t))

\* str.strip(): drops leading and trailing whitespace.
Strip(t) ==
  LET keep == {i \in 1..Len(t) : t[i] \notin Whitespace}
  IN IF keep = {} THEN <<>>
     ELSE LET lo == CHOOSE i \in keep : \A j \in keep : i <= j
              hi == CHOOSE i \in keep : \A j \in keep : j <= i
          IN SubSeq(t, lo, hi)

\* Python's `v in t` for strings: v occurs in t as a contiguous substring.
Contains(t, v) ==
  \E i \in 0..(Len(t) - Len(v)) : SubSeq(t, i + 1, i + Len(v)) = v

\* ----------------------------------------------------- regular expressions
\* The constructs PHRASE_TO_CMD uses: literals, alternation, concatenation,
\* `?`, `.*`, `\b`, `\s*` and `\s+`.
Lit(s) == <<"lit", s>>
Alt(rs) == <<"alt", rs>>
Cat(rs) == <<"cat", rs>>
Opt(r) == <<"opt", r>>
AnyStar == <<"dotstar">>
WB == <<"wb">>
WsStar == <<"wsstar">>
WsPlus == <<"wsplus">>

\* \b at offset i of t (between t[i] and t[i+1]).
IsBoundary(t, i) ==
  LET before == i >= 1 /\ IsWordChar(t[i])
      after == i < Len(t) /\ IsWordChar(t[i + 1])
  IN before # after

RECURSIVE Ends(_, _, _)
RECURSIVE CatEnds(_, _, _, _)

\* The offsets at which a match of r that starts at offset i of t can end.
Ends(r, t, i) ==
  CASE r[1] = "lit" ->
         IF i + Len(r[2]) <= Len(t) /\ SubSeq(t, i + 1, i + Len(r[2])) = r[2]
         THEN {i + Len(r[2])} ELSE {}
    [] r[1] = "alt" -> UNION {Ends(r[2][k], t, i) : k \in 1..Len(r[2])}
    [] r[1] = "cat" -> CatEnds(r[2], 1, t, {i})
    [] r[1] = "opt" -> {i} \cup Ends(r[2], t, i)
    [] r[1] = "dotstar" ->
         {j \in i..Len(t) : \A k \in (i + 1)..j : t[k] # "\n"}
    [] r[1] = "wb" -> IF IsBoundary(t, i) THEN {i} ELSE {}
    [] r[1] = "wsstar" ->
         {j \in i..Len(t) : \A k \in (i + 1)..j : t[k] \in Whitespace}
    [] r[1] = "wsplus" ->
         {j \in (i + 1)..Len(t) : \A k \in (i + 1)..j : t[k] \in Whitespace}

CatEnds(rs, k, t, from) ==
  IF k > Len(rs) \/ from = {} THEN from
  ELSE CatEnds(rs, k + 1, t, UNION {Ends(rs[k], t, i) : i \in from})

\* re.search(pattern, t) is not None
Search(r, t) == \E i \in 0..Len(t) : Ends(r, t, i) # {}

\* ------------------------------------------------- PHRASE_TO_CMD, INTENT_VERBS
\* Canonical tokens, as the strings the code uses.
Tokens ==
  {"rm bg", "rm silence", "rm stutter", "rm filler", "rm mouth",
   "rm hesitation", "rm breath", "normalize", "ai enhance", "preserve music",
   "transcribe", "comprehensive", "merge"}

\* The spelling of each token as text.
TokenText(tok) ==
  CASE tok = "rm bg" -> w_rm \o sp \o w_bg
    [] tok = "rm silence" -> w_rm \o sp \o w_silence
    [] tok = "rm stutter" -> w_rm \o sp \o w_stutter
    [] tok = "rm filler" -> w_rm \o sp \o w_filler
    [] tok = "rm mouth" -> w_rm \o sp \o w_mouth
    [] tok = "rm hesitation" -> w_rm \o sp \o w_hesitation
    [] tok = "rm breath" -> w_rm \o sp \o w_breath
    [] tok = "normalize" -> w_normalize
    [] tok = "ai enhance" -> w_ai \o sp \o w_enhance
    [] tok = "preserve music" -> w_preserve \o sp \o w_music
    [] tok = "transcribe" -> w_transcribe
    [] tok = "comprehensive" -> w_comprehensive
    [] tok = "merge" -> w_merge

\* r"\b<token>\b"
PowerUser(tok) == <<Cat(<<WB, Lit(TokenText(tok)), WB>>), tok>>

\* The descriptive-phrase rules, lines 37-49.
DescriptiveRules == <<
  \* \b(remove|reduce|clean|denoise).*(background\s+noise|noise|hums?|buzz|hiss)\b
  <<Cat(<<WB, Alt(<<Lit(w_remove), Lit(w_reduce), Lit(w_clean), Lit(w_denoise)>>),
          AnyStar,
          Alt(<<Cat(<<Lit(w_background), WsPlus, Lit(w_noise)>>), Lit(w_noise),
                Cat(<<Lit(w_hum), Opt(Lit(w_s))>>), Lit(w_buzz), Lit(w_hiss)>>),
          WB>>), "rm bg">>,
  \* \b(remove|trim|cut).*(long\s+)?silence(s)?\b
  <<Cat(<<WB, Alt(<<Lit(w_remove), Lit(w_trim), Lit(w_cut)>>), AnyStar,
          Opt(Cat(<<Lit(w_long), WsPlus>>)), Lit(w_silence), Opt(Lit(w_s)), WB>>),
    "rm silence">>,
  \* \b(remove).*(stutter|stutters|stuttering)\b
  <<Cat(<<WB, Lit(w_remove), AnyStar,
          Alt(<<Lit(w_stutter), Lit(w_stutters), Lit(w_stuttering)>>), WB>>),
    "rm stutter">>,
  \* \b(remove).*(filler|um|uh|like|you know|sort of|kinda)\b
  <<Cat(<<WB, Lit(w_remove), AnyStar,
          Alt(<<Lit(w_filler), Lit(w_um), Lit(w_uh), Lit(w_like),
                Lit(w_you \o sp \o w_know), Lit(w_sort \o sp \o w_of),
                Lit(w_kinda)>>), WB>>),
    "rm filler">>,
  \* \b(remove).*(mouth\s*(sound|click|smack|noise)s?)\b
  <<Cat(<<WB, Lit(w_remove), AnyStar, Lit(w_mouth), WsStar,
          Alt(<<Lit(w_sound), Lit(w_click), Lit(w_smack), Lit(w_noise)>>),
          Opt(Lit(w_s)), WB>>),
    "rm mouth">>,
  \* \b(remove).*(hesitation|hesitations|hesitant)\b
  <<Cat(<<WB, Lit(w_remove), AnyStar,
          Alt(<<Lit(w_hesitation), Lit(w_hesitations), Lit(w_hesitant)>>), WB>>),
    "rm hesitation">>,
  \* \b(reduce|remove).*(breath|breathing)\b
  <<Cat(<<WB, Alt(<<Lit(w_reduce), Lit(w_remove)>>), AnyStar,
          Alt(<<Lit(w_breath), Lit(w_breathing)>>), WB>>),
    "rm breath">>,
  \* \bnormalize(d|)\b|\b(level match|level-match)\b
  <<Alt(<<Cat(<<WB, Lit(w_normalize), Alt(<<Lit(w_d), Lit(<<>>)>>), WB>>),
          Cat(<<WB, Alt(<<Lit(w_level \o sp \o w_match),
                          Lit(w_level \o hy \o w_match)>>), WB>>)>>),
    "normalize">>,
  \* \b(ai\s*enhance|enhance.*(with\s*ai)?|ai\s*cleanup)\b
  <<Cat(<<WB, Alt(<<Cat(<<Lit(w_ai), WsStar, Lit(w_enhance)>>),
                    Cat(<<Lit(w_enhance), AnyStar,
                          Opt(Cat(<<Lit(w_with), WsStar, Lit(w_ai)>>))>>),
                    Cat(<<Lit(w_ai), WsStar, Lit(w_cleanup)>>)>>), WB>>),
    "ai enhance">>,
  \* \b(preserve|keep).*(music)\b
  <<Cat(<<WB, Alt(<<Lit(w_preserve), Lit(w_keep)>>), AnyStar, Lit(w_music), WB>>),
    "preserve music">>,
  \* \btranscribe|transcription|speech\s*to\s*text\b
  <<Alt(<<Cat(<<WB, Lit(w_transcribe)>>), Lit(w_transcription),
          Cat(<<Lit(w_speech), WsStar, Lit(w_to), WsStar, Lit(w_text), WB>>)>>),
    "transcribe">>,
  \* \b(apply|do|run|perform|process).*\b(all|comprehensive|everything)\b
  <<Cat(<<WB, Alt(<<Lit(w_apply), Lit(w_do), Lit(w_run), Lit(w_perform),
                    Lit(w_process)>>), AnyStar, WB,
          Alt(<<Lit(w_all), Lit(w_comprehensive), Lit(w_everything)>>), WB>>),
    "comprehensive">>,
  \* \b(merge|combine|join|concatenate|splice).*(audio|video|file|files|clips?)\b
  <<Cat(<<WB, Alt(<<Lit(w_merge), Lit(w_combine), Lit(w_join),
                    Lit(w_concatenate), Lit(w_splice)>>), AnyStar,
          Alt(<<Lit(w_audio), Lit(w_video), Lit(w_file), Lit(w_files),
                Cat(<<Lit(w_clip), Opt(Lit(w_s))>>)>>), WB>>),
    "merge">> >>

\* The power-user rules, lines 51-63, in the order of the list.
PowerUserRules == <<
  PowerUser("rm bg"), PowerUser("rm silence"), PowerUser("rm stutter"),
  PowerUser("rm filler"), PowerUser("rm mouth"), PowerUser("rm hesitation"),
  PowerUser("rm breath"), PowerUser("normalize"), PowerUser("ai enhance"),
  PowerUser("preserve music"), PowerUser("transcribe"),
  PowerUser("comprehensive"), PowerUser("merge") >>

PHRASE_TO_CMD_DescriptiveOnly == DescriptiveRules

\* The pattern table: <<pattern, token>> pairs, rank = position.
PHRASE_TO_CMD == DescriptiveRules \o PowerUserRules

INTENT_VERBS == <<
  w_run, w_apply, w_execute, w_perform, w_process, w_start, w_begin, w_do,
  w_remove, w_reduce, w_normalize, w_enhance, w_transcribe, w_preserve,
  w_clean, w_denoise, w_merge, w_combine, w_join, w_concatenate, w_splice >>

NotFound == "None"

\* _user_has_execute_intent(text)
UserHasExecuteIntent(text) ==
  LET t == Lower(Strip(text))
  IN \E k \in 1..Len(INTENT_VERBS) : Contains(t, INTENT_VERBS[k])

RECURSIVE FirstMatchFrom_Last(_, _, _)
FirstMatchFrom_Last(table, k, t) ==
  IF k > Len(table) THEN NotFound
  ELSE LET later == FirstMatchFrom_Last(table, k + 1, t)
       IN IF later # NotFound THEN later
          ELSE IF Search(table[k][1], t) THEN table[k][2]
          ELSE NotFound

RECURSIVE FirstMatchFrom(_, _, _)
\* The for loop of _extract_command_from_user, from rule k on.
FirstMatchFrom(table, k, t) ==
  IF k > Len(table) THEN NotFound
  ELSE IF Search(table[k][1], t) THEN table[k][2]
  ELSE FirstMatchFrom(table, k + 1, t)

\* _extract_command_from_user(text)
ExtractCommandFromUser(text) ==
  FirstMatchFrom(PHRASE_TO_CMD, 1, Lower(Strip(text)))

\* ------------------------------------------------------------ os.path, int
w_tmp == <<"/","t","m","p">>
w_cwd == <<"/","a","p","p">>
w_input == <<"i","n","p","u","t">>
w_merge_input_ == <<"m","e","r","g","e","_","i","n","p","u","t","_">>
w_merged == <<"m","e","r","g","e","d">>
ext_m4a == <<".","m","4","a">>
ext_wav == <<".","w","a","v">>
ext_mp3 == <<".","m","p","3">>

\* The largest index of t holding c, 0 when there is none (str.rfind + 1).
RFind(t, c) ==
  LET at == {i \in 1..Len(t) : t[i] = c}
  IN IF at = {} THEN 0 ELSE CHOOSE i \in at : \A j \in at : j <= i

\* os.path.isabs
IsAbs(p) == Len(p) > 0 /\ p[1] = "/"

\* os.path.join(a, b)
PathJoin(a, b) ==
  IF IsAbs(b) THEN b
  ELSE IF Len(a) = 0 \/ a[Len(a)] = "/" THEN a \o b
  ELSE a \o <<"/">> \o b

\* os.path.basename
BaseName(p) == SubSeq(p, RFind(p, "/") + 1, Len(p))

\* os.path.splitext(p): <<root, ext>>. The extension starts at the last dot
\* of the last path component, unless only dots precede it there.
SplitExt(p) ==
  LET sepIndex == RFind(p, "/")
      dotIndex == RFind(p, ".")
  IN IF dotIndex > sepIndex
        /\ \E k \in (sepIndex + 1)..(dotIndex - 1) : p[k] # "."
     THEN <<SubSeq(p, 1, dotIndex - 1), SubSeq(p, dotIndex, Len(p))>>
     ELSE <<p, <<>> >>

\* str.replace(' ', '-')
ReplaceSpaces(t) ==
  SubSeq([i \in 1..Len(t) |-> IF t[i] = " " THEN "-" ELSE t[i]], 1, Len(t))

RECURSIVE IntText(_)
\* str(i) for i >= 0, as in f"merge_input_{i}"
IntText(i) ==
  IF i < 10 THEN <<DigitCs[i + 1]>>
  ELSE IntText(i \div 10) \o <<DigitCs[(i % 10) + 1]>>

RECURSIVE SplitComma(_)
\* str.split(',')
SplitComma(t) ==
  LET at == {i \in 1..Len(t) : t[i] = ","}
  IN IF at = {} THEN <<t>>
     ELSE LET c == CHOOSE i \in at : \A j \in at : i <= j
          IN <<SubSeq(t, 1, c - 1)>> \o SplitComma(SubSeq(t, c + 1, Len(t)))

DigitValue(c) == (CHOOSE k \in 1..10 : DigitCs[k] = c) - 1

RECURSIVE DigitsValue(_)
DigitsValue(ds) ==
  IF Len(ds) = 0 THEN 0
  ELSE 10 * DigitsValue(SubSeq(ds, 1, Len(ds) - 1)) + DigitValue(ds[Len(ds)])

\* int(x.strip()) succeeds: an optional sign, then decimal digits that single
\* underscores may separate. Anything else raises ValueError.
IntOk(x) ==
  LET s == Strip(x)
      body == IF Len(s) > 0 /\ s[1] \in {"+", "-"} THEN Tail(s) ELSE s
  IN /\ Len(body) > 0
     /\ \A k \in 1..Len(body) : body[k] \in Digits \cup {"_"}
     /\ body[1] # "_" /\ body[Len(body)] # "_"
     /\ \A k \in 1..(Len(body) - 1) : ~(body[k] = "_" /\ body[k + 1] = "_")

\* int(x.strip()), where it succeeds.
ParseInt(x) ==
  LET s == Strip(x)
      negative == s[1] = "-"
      body == IF s[1] \in {"+", "-"} THEN Tail(s) ELSE s
      ds == SelectSeq(body, LAMBDA c : c \in Digits)
  IN IF negative THEN 0 - DigitsValue(ds) ELSE DigitsValue(ds)

\* ------------------------------------------------------------------ state
NumReqs == 2
Reqs == 1..NumReqs

\* None, for a path (also the empty string: both are falsy in the code).
NoPath == <<>>
\* An absent form field (None or ""): both are falsy in the code.
NoCommand == ""

VARIABLES
  function_map,    \* iap.function_map: the tokens the Processing Engine supports
  iap_input_file,  \* the input file held by the shared engine handle `iap`
  fs,              \* the files of /tmp and the working directory, oldest first
  req,             \* the requests, each with the locals of its handler
  text, resolved, intent, called  \* one call of the resolver and the intent gate

vars == <<function_map, iap_input_file, fs, req, text, resolved, intent, called>>
resolverVars == <<text, resolved, intent, called>>
serverVars == <<function_map, iap_input_file, fs, req>>

NoResponse == [status |-> 0, error |-> "", file |-> NoPath]

IdleReq ==
  [kind |-> "none", pc |-> "idle",
   hasFile |-> FALSE, filenames |-> <<>>, message |-> <<>>,
   given_command |-> NoCommand, command |-> NoCommand, order |-> <<>>,
   ext |-> <<>>, local_in |-> NoPath, out_path |-> NoPath, raised |-> FALSE,
   local_files |-> <<>>, staged |-> <<>>,
   engine_invoked |-> FALSE, engine_token |-> NoCommand, engine_saw |-> NoPath,
   merge_invoked |-> FALSE, merge_args |-> <<>>,
   response |-> NoResponse]

\* return jsonify({"detail": ...}), status
Reply(q, status, error) ==
  [q EXCEPT !.pc = "done",
            !.response = [status |-> status, error |-> error, file |-> NoPath]]

\* return send_file(path, ...)
SendFile(q, path) ==
  [q EXCEPT !.response = [status |-> 200, error |-> "", file |-> path]]

\* -------------------------------------------------------------- storage
\* os.path.exists(p)
Exists(files, p) == \E k \in 1..Len(files) : files[k].path = p

\* os.remove(p)
Remove(files, p) == SelectSeq(files, LAMBDA e : e.path # p)

\* open(p, "wb") and the writes that follow, by request r: the file is
\* created or truncated, and is now the most recently modified.
Write(files, p, r) == Append(Remove(files, p), [path |-> p, by |-> r])

RECURSIVE RemoveAll(_, _)
\* the cleanup loop: os.remove of every path of ps that exists
RemoveAll(files, ps) ==
  IF Len(ps) = 0 THEN files
  ELSE RemoveAll(Remove(files, Head(ps)), Tail(ps))

\* ------------------------------------------------------------- /process
\* `ext = ext or ".m4a"` after os.path.splitext(filename)
UploadExt(filename) ==
  LET ext == SplitExt(filename)[2] IN IF ext = <<>> THEN ext_m4a ELSE ext

ProcessIntentRejects_EmptyPasses(command, message) ==
  command = NoCommand /\ message # <<>> /\ ~UserHasExecuteIntent(message)

\* lines 423-425: the intent gate of /process
ProcessIntentRejects(command, message) ==
  command = NoCommand /\ ~UserHasExecuteIntent(message)

CommandUnknown_ResolvedOnly(command, cmd) ==
  command = NoCommand /\ cmd \notin function_map

\* line 430: command not in iap.function_map
CommandUnknown(command, cmd) == cmd \notin function_map

\* Lines 415-431: a /process request arrives and is validated.
ProcessArrive(r, hasFile, filename, message, command) ==
  /\ req[r].pc = "idle"
  /\ LET q == [IdleReq EXCEPT !.kind = "process", !.hasFile = hasFile,
                              !.filenames = <<filename>>, !.message = message,
                              !.given_command = command, !.command = command]
         cmd == IF command = NoCommand THEN ExtractCommandFromUser(message)
                ELSE command
     IN req' = [req EXCEPT ![r] =
          IF ~hasFile \/ filename = <<>> THEN Reply(q, 400, "UploadMissing")
          ELSE IF ProcessIntentRejects(command, message)
            THEN Reply(q, 400, "NoIntentDetected")
          ELSE IF command = NoCommand /\ cmd = NotFound
            THEN Reply(q, 400, "UnmappedPhrase")
          ELSE IF CommandUnknown(command, cmd)
            THEN Reply(q, 400, "UnknownCommand")
          ELSE [q EXCEPT !.pc = "p_stage", !.command = cmd]]
  /\ UNCHANGED <<function_map, iap_input_file, fs, resolverVars>>

\* line 437
LocalIn(filename) == PathJoin(w_tmp, w_input \o UploadExt(filename))

\* Lines 433-443: the upload is written to /tmp/input<ext>. Reading the
\* upload stream may raise, which leaves what was written and ends the
\* request with a 500.
ProcessStage(r) ==
  /\ req[r].pc = "p_stage"
  /\ LET q == req[r]
         path == LocalIn(q.filenames[1])
     IN /\ fs' = Write(fs, path, r)
        /\ \/ req' = [req EXCEPT ![r] =
                 [q EXCEPT !.pc = "p_set_input", !.ext = UploadExt(q.filenames[1]),
                           !.local_in = path]]
           \/ req' = [req EXCEPT ![r] = Reply(q, 500, "InternalError")]
  /\ UNCHANGED <<function_map, iap_input_file, resolverVars>>

\* line 446: iap.set_input_file(local_in)
ProcessSetInput(r) ==
  /\ req[r].pc = "p_set_input"
  /\ iap_input_file' = req[r].local_in
  /\ req' = [req EXCEPT ![r].pc = "p_engine"]
  /\ UNCHANGED <<function_map, fs, resolverVars>>

w_out == <<"o","u","t">>
w_data == <<"/","d","a","t","a">>

\* line 468: the guessed name <stem>-<command with hyphens><ext>
GuessName(local_in, command, ext) ==
  SplitExt(BaseName(local_in))[1] \o hy \o ReplaceSpaces(TokenText(command)) \o ext

\* What a run of the Processing Engine may return: nothing, a relative
\* name or an absolute path.
EngineReturns(q) ==
  {NoPath, w_out \o q.ext, PathJoin(w_data, w_out \o q.ext)}

\* Where a run of the Processing Engine may leave its artifact, as far as
\* the handler can tell the places apart.
EngineWrites(q) ==
  {PathJoin(w_cwd, w_out \o q.ext), PathJoin(w_tmp, w_out \o q.ext),
   PathJoin(w_data, w_out \o q.ext),
   PathJoin(w_tmp, GuessName(q.local_in, q.command, q.ext)),
   PathJoin(w_tmp, SplitExt(BaseName(q.local_in))[1] \o hy \o w_out \o q.ext)}

\* Line 448: asyncio.run(iap.process_audio_file(command)). The engine works
\* on the input file its handle holds when it runs. It raises, or returns a
\* path (or none) after leaving at most one artifact.
ProcessEngine(r) ==
  /\ req[r].pc = "p_engine"
  /\ LET q == [req[r] EXCEPT !.pc = "p_clear_input", !.engine_invoked = TRUE,
                             !.engine_token = req[r].command,
                             !.engine_saw = iap_input_file]
     IN \/ /\ req' = [req EXCEPT ![r] = [q EXCEPT !.raised = TRUE]]
           /\ fs' = fs
        \/ /\ iap_input_file # NoPath
           /\ \E ret \in EngineReturns(q) :
                /\ req' = [req EXCEPT ![r] = [q EXCEPT !.out_path = ret]]
                /\ \/ fs' = fs
                   \/ \E p \in EngineWrites(q) : fs' = Write(fs, p, r)
        \/ /\ iap_input_file = NoPath
           /\ req' = [req EXCEPT ![r] = q]
           /\ fs' = fs
  /\ UNCHANGED <<function_map, iap_input_file, resolverVars>>

\* Lines 449-450: finally: iap.set_input_file(None). An exception of the
\* engine then leaves the handler: a 500.
ProcessClearInput(r) ==
  /\ req[r].pc = "p_clear_input"
  /\ iap_input_file' = NoPath
  /\ req' = [req EXCEPT ![r] =
       IF req[r].raised THEN Reply(req[r], 500, "EngineFailure")
       ELSE [req[r] EXCEPT !.pc = "p_locate"]]
  /\ UNCHANGED <<function_map, fs, resolverVars>>

\* lines 457-470: the candidate list
Candidates(q) ==
  (IF IsAbs(q.out_path) THEN <<q.out_path>>
   ELSE <<PathJoin(w_cwd, q.out_path), PathJoin(w_tmp, q.out_path)>>)
  \o <<PathJoin(w_cwd, GuessName(q.local_in, q.command, q.ext)),
       PathJoin(w_tmp, GuessName(q.local_in, q.command, q.ext))>>

\* line 473: next((p for p in candidates if os.path.exists(p)), None)
FirstExisting(files, cands) ==
  LET at == {k \in 1..Len(cands) : Exists(files, cands[k])}
  IN IF at = {} THEN NoPath
     ELSE cands[CHOOSE k \in at : \A j \in at : k <= j]

\* Lines 452-483: the artifact is looked for and sent.
ProcessLocate(r) ==
  /\ req[r].pc = "p_locate"
  /\ LET q == req[r]
         existing == FirstExisting(fs, Candidates(q))
     IN req' = [req EXCEPT ![r] =
          IF q.out_path = NoPath THEN Reply(q, 500, "NoOutputPath")
          ELSE IF existing = NoPath THEN Reply(q, 500, "OutputNotFound")
          ELSE [SendFile(q, existing) EXCEPT !.pc = "done"]]
  /\ UNCHANGED <<function_map, iap_input_file, fs, resolverVars>>

\* --------------------------------------------------------------- /merge
\* line 339: [f for f in uploaded_files if f.filename and f.filename.strip()]
ValidUploads(filenames) == SelectSeq(filenames, LAMBDA f : Strip(f) # <<>>)

\* line 345: message and not _user_has_execute_intent(message)
MergeIntentRejects(message) ==
  message # <<>> /\ ~UserHasExecuteIntent(message)

\* Lines 331-346: a /merge request arrives and is validated.
MergeArrive(r, filenames, message, order) ==
  /\ req[r].pc = "idle"
  /\ LET q == [IdleReq EXCEPT !.kind = "merge", !.hasFile = Len(filenames) > 0,
                              !.filenames = filenames, !.message = message,
                              !.order = order]
     IN req' = [req EXCEPT ![r] =
          IF Len(filenames) < 2 THEN Reply(q, 400, "UploadMissing")
          ELSE IF Len(ValidUploads(filenames)) < 2
            THEN Reply(q, 400, "UploadMissing")
          ELSE IF MergeIntentRejects(message)
            THEN Reply(q, 400, "NoIntentDetected")
          ELSE [q EXCEPT !.pc = "m_stage"]]
  /\ UNCHANGED <<function_map, iap_input_file, fs, resolverVars>>

\* line 356: /tmp/merge_input_<i><ext>, i counted from 0
MergeLocalPath(i, filename) ==
  PathJoin(w_tmp, w_merge_input_ \o IntText(i) \o UploadExt(filename))

\* Lines 353-365, one turn of the loop: the next upload is written to its
\* path and the path is appended to local_files. Reading the upload may
\* raise: the path is then not in local_files, and the handler goes to
\* `except Exception` and then to `finally`.
MergeStage(r) ==
  /\ req[r].pc = "m_stage"
  /\ LET q == req[r]
         i == Len(q.local_files)
         uploaded_files == ValidUploads(q.filenames)
         path == MergeLocalPath(i, uploaded_files[i + 1])
         files == Append(q.local_files, path)
     IN /\ fs' = Write(fs, path, r)
        /\ \/ req' = [req EXCEPT ![r] =
                 [q EXCEPT !.local_files = files, !.staged = files,
                           !.pc = IF Len(files) = Len(uploaded_files)
                                  THEN "m_order" ELSE "m_stage"]]
           \/ req' = [req EXCEPT ![r] =
                 [Reply(q, 500, "MergeFailed") EXCEPT !.pc = "m_cleanup"]]
  /\ UNCHANGED <<function_map, iap_input_file, resolverVars>>

\* line 370: [int(x.strip()) for x in order.split(',')] does not raise
OrderParses(order) ==
  \A k \in 1..Len(SplitComma(order)) : IntOk(SplitComma(order)[k])

\* line 370: order_indices
OrderIndices(order) ==
  LET items == SplitComma(order)
  IN SubSeq([k \in 1..Len(items) |-> ParseInt(items[k])], 1, Len(items))

OrderMismatch_RangeOnly(indices, n) ==
  \/ Len(indices) # n
  \/ ~({indices[k] : k \in 1..Len(indices)} \subseteq 0..(n - 1))

\* lines 371-374: the two checks of order_indices against the n staged files
OrderMismatch(indices, n) ==
  \/ Len(indices) # n
  \/ {indices[k] : k \in 1..Len(indices)} # 0..(n - 1)

\* line 375: [local_files[i] for i in order_indices]
Reorder(files, indices) ==
  SubSeq([k \in 1..Len(indices) |-> files[indices[k] + 1]], 1, Len(indices))

\* Lines 367-377: the caller's order, if any, is checked and applied.
MergeOrder(r) ==
  /\ req[r].pc = "m_order"
  /\ LET q == req[r]
     IN req' = [req EXCEPT ![r] =
          IF q.order = <<>> THEN [q EXCEPT !.pc = "m_engine"]
          ELSE IF ~OrderParses(q.order)
            THEN [Reply(q, 400, "InvalidOrderFormat") EXCEPT !.pc = "m_cleanup"]
          ELSE IF OrderMismatch(OrderIndices(q.order), Len(q.local_files))
            THEN [Reply(q, 400, "MergeOrderMismatch") EXCEPT !.pc = "m_cleanup"]
          ELSE [q EXCEPT !.pc = "m_engine",
                         !.local_files = Reorder(q.local_files, OrderIndices(q.order))]]
  /\ UNCHANGED <<function_map, iap_input_file, fs, resolverVars>>

\* lines 380-382: /tmp/merged<extension of the first file in final order>
OutputPath(files) == PathJoin(w_tmp, w_merged \o SplitExt(files[1])[2])

\* Lines 385-396: merge_files(local_files, output_path), then send_file. The
\* Merge Engine writes the output and returns its path, or raises (with or
\* without an output begun); it raises when an input is missing.
MergeEngine(r) ==
  /\ req[r].pc = "m_engine"
  /\ LET q == [req[r] EXCEPT !.pc = "m_cleanup", !.merge_invoked = TRUE,
                             !.merge_args = req[r].local_files]
         out == OutputPath(q.local_files)
     IN \/ /\ \A k \in 1..Len(q.local_files) : Exists(fs, q.local_files[k])
           /\ fs' = Write(fs, out, r)
           /\ req' = [req EXCEPT ![r] = SendFile(q, out)]
        \/ /\ fs' \in {fs, Write(fs, out, r)}
           /\ req' = [req EXCEPT ![r] =
                [Reply(q, 500, "MergeFailed") EXCEPT !.pc = "m_cleanup"]]
  /\ UNCHANGED <<function_map, iap_input_file, resolverVars>>

\* Lines 397-404: finally: every path of local_files that exists is removed.
MergeCleanup(r) ==
  /\ req[r].pc = "m_cleanup"
  /\ fs' = RemoveAll(fs, req[r].local_files)
  /\ req' = [req EXCEPT ![r].pc = "done"]
  /\ UNCHANGED <<function_map, iap_input_file, resolverVars>>

\* The response has been sent: the request is over. Of its locals the
\* model keeps what tells which request it was.
Close(r) ==
  /\ req[r].pc = "done"
  /\ req' = [req EXCEPT ![r] =
       [IdleReq EXCEPT !.pc = "closed", !.kind = req[r].kind,
                       !.local_in = req[r].local_in]]
  /\ UNCHANGED <<function_map, iap_input_file, fs, resolverVars>>

\* ------------------------------------------------------- the resolver alone
MaxWords == 2

Vocabulary ==
  {w_rm, w_bg, w_merge, w_comprehensive, w_enhance, w_transcription,
   w_remove, w_REMOVE, w_noise, w_hello, w_do, w_all, w_files}

RECURSIVE JoinWords(_)
\* " ".join(ws)
JoinWords(ws) ==
  IF Len(ws) = 0 THEN <<>>
  ELSE IF Len(ws) = 1 THEN ws[1]
  ELSE ws[1] \o sp \o JoinWords(Tail(ws))

\* The messages the resolver is called with: every bare token, the phrasings
\* the specification documents, and every text of at most MaxWords words.
Messages ==
  {TokenText(tok) : tok \in Tokens}
  \cup {JoinWords(<<w_hello, w_there>>),
        JoinWords(<<w_remove, w_background, w_noise>>),
        JoinWords(<<w_cut, w_long, w_silence \o w_s>>),
        JoinWords(<<w_merge, w_these, w_clip \o w_s>>),
        w_remove \o <<"\n">> \o w_noise,
        sp \o TokenText("rm bg") \o <<"\t">>}
  \cup {JoinWords(ws) : ws \in UNION {[1..n -> Vocabulary] : n \in 0..MaxWords}}

ServerIdle ==
  /\ iap_input_file = NoPath
  /\ fs = <<>>
  /\ req = [r \in Reqs |-> IdleReq]

InitResolve ==
  /\ text \in Messages
  /\ resolved = NotFound
  /\ intent = FALSE
  /\ called = {}
  /\ function_map = Tokens
  /\ ServerIdle

\* a call of _extract_command_from_user(text)
RunResolve ==
  /\ "resolve" \notin called
  /\ called' = called \cup {"resolve"}
  /\ resolved' = ExtractCommandFromUser(text)
  /\ UNCHANGED <<text, intent, serverVars>>

\* a call of _user_has_execute_intent(text)
RunIntent ==
  /\ "intent" \notin called
  /\ called' = called \cup {"intent"}
  /\ intent' = UserHasExecuteIntent(text)
  /\ UNCHANGED <<text, resolved, serverVars>>

NextResolve == RunResolve \/ RunIntent

SpecResolve == InitResolve /\ [][NextResolve]_vars

\* ------------------------------------------------------------ the server
name_a_wav == <<"a">> \o ext_wav
name_b_wav == <<"b">> \o ext_wav
name_c_mp3 == <<"c">> \o ext_mp3
name_noext == <<"d">>

msg_remove_noise == JoinWords(<<w_remove, w_noise>>)
msg_hello_there == JoinWords(<<w_hello, w_there>>)

\* The engines the server may have been started with.
FunctionMaps == {Tokens, Tokens \ {"merge"}}

ResolverIdle ==
  /\ text = <<>>
  /\ resolved = NotFound
  /\ intent = FALSE
  /\ called = {}

Init ==
  /\ function_map \in FunctionMaps
  /\ ServerIdle
  /\ ResolverIdle

\* Requests that run concurrently, each handled by its own thread.
Process(r) ==
  \E filename \in {name_a_wav, name_c_mp3} :
    ProcessArrive(r, TRUE, filename, msg_remove_noise, NoCommand)

Merge(r) ==
  \E filenames \in {<<name_a_wav, name_b_wav>>},
     order \in {<<>>, <<"1", ",", "0">>} :
    MergeArrive(r, filenames, <<>>, order)

Step(r) ==
  \/ ProcessStage(r)
  \/ ProcessSetInput(r)
  \/ ProcessEngine(r)
  \/ ProcessClearInput(r)
  \/ ProcessLocate(r)
  \/ MergeStage(r)
  \/ MergeOrder(r)
  \/ MergeEngine(r)
  \/ MergeCleanup(r)
  \/ Close(r)

Next == \E r \in Reqs : Process(r) \/ Merge(r) \/ Step(r)

Spec == Init /\ [][Next]_vars

\* One request at a time, with every input of the bounded input space.
MaxFiles == 3
MaxOrderLen == 3

FileNames == {<<>>, sp, name_a_wav, name_noext}
Commands == {NoCommand, "rm bg", "merge", "rm-bg", "RM BG"}
RequestMessages ==
  {<<>>, sp, msg_hello_there, msg_remove_noise, TokenText("rm bg"),
   JoinWords(<<w_REMOVE, w_noise>>), JoinWords(<<w_merge, w_files>>),
   JoinWords(<<w_do, w_all>>), JoinWords(<<w_do, w_hello>>)}

MergeFileNames == {name_a_wav, name_c_mp3}
MergeUploads ==
  UNION {[1..n -> MergeFileNames] : n \in 0..MaxFiles}
  \cup {<<sp, name_a_wav>>, <<name_a_wav, <<>>, name_c_mp3>>}
MergeMessages == {<<>>, sp, msg_hello_there, JoinWords(<<w_merge, w_files>>)}
OrderItems == {<<"0">>, <<" ", "1">>, <<"2">>, <<"x">>}

RECURSIVE JoinComma(_)
\* ",".join(items)
JoinComma(items) ==
  IF Len(items) = 0 THEN <<>>
  ELSE IF Len(items) = 1 THEN items[1]
  ELSE items[1] \o <<",">> \o JoinComma(Tail(items))

Orders ==
  {JoinComma(items) : items \in UNION {[1..n -> OrderItems] : n \in 0..MaxOrderLen}}

Alone(r) == \A o \in Reqs : req[o].pc = "idle"

ProcessAny(r) ==
  /\ Alone(r)
  /\ \E hasFile \in BOOLEAN, filename \in FileNames,
        message \in RequestMessages, command \in Commands :
       ProcessArrive(r, hasFile, filename, message, command)

MergeAny(r) ==
  /\ Alone(r)
  /\ \E filenames \in MergeUploads, message \in MergeMessages,
        order \in {<<>>, <<"1", ",", "0">>, <<"0", ",", "0">>} :
       MergeArrive(r, filenames, message, order)

NextInputs == ProcessAny(1) \/ MergeAny(1) \/ Step(1)

SpecInputs == Init /\ [][NextInputs]_vars

\* One /merge request at a time, with every order of the bounded space.
InitOrders ==
  /\ function_map = Tokens
  /\ ServerIdle
  /\ ResolverIdle

MergeOrdered(r) ==
  /\ Alone(r)
  /\ \E filenames \in UNION {[1..n -> MergeFileNames] : n \in 2..MaxFiles},
        message \in {<<>>, JoinWords(<<w_merge, w_files>>)}, order \in Orders :
       MergeArrive(r, filenames, message, order)

NextOrders ==
  \/ MergeOrdered(1)
  \/ MergeStage(1)
  \/ MergeOrder(1)
  \/ MergeEngine(1)
  \/ MergeCleanup(1)
  \/ Close(1)

SpecOrders == InitOrders /\ [][NextOrders]_vars

\* ================================================================ claims
Arrived(r) == req[r].kind # "none" /\ req[r].pc # "closed"

\* C1: the engine invocation made for a request works on the asset that
\* request staged: while a request waits to run the engine the shared handle
\* holds its own input, and the engine run for it saw its own input.
C1_EngineUsesOwnAsset ==
  \A r \in Reqs :
    /\ req[r].pc = "p_engine" => iap_input_file = req[r].local_in
    /\ req[r].engine_invoked => req[r].engine_saw = req[r].local_in

Range(s) == {s[k] : k \in 1..Len(s)}

InFlight(r) == req[r].pc \notin {"idle", "done", "closed"}

StagedPaths(r) ==
  IF req[r].kind = "process" THEN {req[r].local_in} \ {NoPath}
  ELSE Range(req[r].staged)

\* C2: no two requests in flight at the same time have been assigned the same
\* path of ephemeral storage for a staged upload.
C2_DistinctStagedPaths ==
  \A r1, r2 \in Reqs :
    r1 # r2 /\ InFlight(r1) /\ InFlight(r2)
      => StagedPaths(r1) \cap StagedPaths(r2) = {}

LeftBy(r) == {fs[k].path : k \in {j \in 1..Len(fs) : fs[j].by = r}}

\* C3: once a /process request that staged its upload is over, no file it
\* created remains in storage.
C3_ProcessLeavesNothing ==
  \A r \in Reqs :
    req[r].kind = "process" /\ req[r].pc = "closed" /\ req[r].local_in # NoPath
      => LeftBy(r) = {}

\* C4: once a /merge request is over, whichever outcome fired, no file it
\* created remains in storage.
C4_MergeLeavesNothing ==
  \A r \in Reqs :
    req[r].kind = "merge" /\ req[r].pc = "closed" => LeftBy(r) = {}

\* The text, lower-cased, contains no verb of IntentVerbSet.
NoVerb(message) ==
  \A k \in 1..Len(INTENT_VERBS) : ~Contains(Lower(message), INTENT_VERBS[k])

ValidProcessUpload(q) == q.hasFile /\ q.filenames[1] # <<>>

ValidMergeUploads(q) ==
  Cardinality({k \in 1..Len(q.filenames) : Strip(q.filenames[k]) # <<>>}) >= 2

RejectedNoIntent(q) ==
  /\ q.pc = "done"
  /\ q.response = [status |-> 400, error |-> "NoIntentDetected", file |-> NoPath]
  /\ ~q.engine_invoked
  /\ ~q.merge_invoked

\* C5, as stated: with valid uploads, a /process request without a command
\* override and any /merge request, whose message contains no intent verb (an
\* empty message included), is rejected with NoIntentDetected (400) and no
\* engine is invoked.
C5_NoIntentRejected ==
  \A r \in Reqs :
    LET q == req[r]
    IN /\ Arrived(r) /\ q.kind = "process" /\ ValidProcessUpload(q)
            /\ q.given_command = NoCommand /\ NoVerb(q.message)
          => RejectedNoIntent(q)
       /\ Arrived(r) /\ q.kind = "merge" /\ ValidMergeUploads(q)
            /\ NoVerb(q.message)
          => RejectedNoIntent(q)

\* C5, amended: as above, but a /merge request is gated only when its message
\* is not empty; a /merge request with an empty or absent message is not
\* rejected for lack of intent.
C5_NoIntentRejectedUnlessMergeSilent ==
  \A r \in Reqs :
    LET q == req[r]
    IN /\ Arrived(r) /\ q.kind = "process" /\ ValidProcessUpload(q)
            /\ q.given_command = NoCommand /\ NoVerb(q.message)
          => RejectedNoIntent(q)
       /\ Arrived(r) /\ q.kind = "merge" /\ ValidMergeUploads(q)
            /\ q.message # <<>> /\ NoVerb(q.message)
          => RejectedNoIntent(q)
       /\ Arrived(r) /\ q.kind = "merge" /\ ValidMergeUploads(q)
            /\ q.message = <<>>
          => q.response.error # "NoIntentDetected"

C5_Witness ==
  \E r \in Reqs :
    /\ req[r].kind = "merge" /\ req[r].message = msg_hello_there
    /\ ValidMergeUploads(req[r])
    /\ RejectedNoIntent(req[r])

\* The search the claim describes, over the files `files`.
ClaimedCandidates(q) ==
  (IF q.out_path = NoPath THEN <<>>
   ELSE IF IsAbs(q.out_path) THEN <<q.out_path>>
   ELSE <<PathJoin(w_cwd, q.out_path), PathJoin(w_tmp, q.out_path)>>)
  \o <<PathJoin(w_cwd, GuessName(q.local_in, q.command, q.ext)),
       PathJoin(w_tmp, GuessName(q.local_in, q.command, q.ext))>>

IsPrefix(p, t) == Len(p) <= Len(t) /\ SubSeq(t, 1, Len(p)) = p
IsSuffix(p, t) == Len(p) <= Len(t) /\ SubSeq(t, Len(t) - Len(p) + 1, Len(t)) = p

\* The entries of /tmp named <input-stem>-...<input-extension>.
ScanMatches(files, q) ==
  {k \in 1..Len(files) :
     /\ IsPrefix(w_tmp \o <<"/">>, files[k].path)
     /\ RFind(files[k].path, "/") = Len(w_tmp) + 1
     /\ IsPrefix(SplitExt(BaseName(q.local_in))[1] \o hy, BaseName(files[k].path))
     /\ IsSuffix(q.ext, files[k].path)}

ClaimedLocate(files, q) ==
  LET first == FirstExisting(files, ClaimedCandidates(q))
      scan == ScanMatches(files, q)
  IN IF first # NoPath THEN first
     ELSE IF scan # {} THEN files[CHOOSE k \in scan : \A j \in scan : j <= k].path
     ELSE NoPath

\* C6: after the engine has run, the artifact sent is the first existing
\* candidate in the order (1) returned absolute path, (2) returned path under
\* the working directory, (3) under /tmp, (4) guessed name under the working
\* directory, then /tmp, (5) newest /tmp entry <stem>-*<ext>; the request
\* fails only when none exists, whether or not the engine returned a path.
C6_LocateFirstExisting ==
  \A r \in Reqs :
    LET q == req[r]
    IN q.kind = "process" /\ q.pc = "done" /\ q.engine_invoked /\ ~q.raised
       /\ (\A o \in Reqs \ {r} : req[o].pc = "idle")
       => IF ClaimedLocate(fs, q) = NoPath
          THEN q.response.status = 500
          ELSE q.response.status = 200 /\ q.response.file = ClaimedLocate(fs, q)

\* indices is a permutation of 0..n-1: n entries, every index exactly once.
IsPermutation(indices, n) ==
  /\ Len(indices) = n
  /\ \A i \in 0..(n - 1) :
       Cardinality({k \in 1..Len(indices) : indices[k] = i}) = 1

\* C7: in a /merge request whose n uploads are all staged: an order that is
\* not a permutation of 0..n-1 fails with MergeOrderMismatch (400) and the
\* Merge Engine is never invoked; with a permutation the Merge Engine receives
\* at position k the asset uploaded at index order[k], each staged asset once;
\* without an order it receives the assets in upload order.
C7_MergeOrder ==
  \A r \in Reqs :
    LET q == req[r]
        n == Len(q.staged)
    IN q.kind = "merge" /\ q.pc \in {"m_cleanup", "done"} /\ n >= 2
         /\ n = Len(ValidUploads(q.filenames))
       => IF q.order = <<>>
            THEN q.merge_invoked /\ q.merge_args = q.staged
          ELSE IF ~OrderParses(q.order)
            THEN ~q.merge_invoked /\ q.response.status = 400
          ELSE IF ~IsPermutation(OrderIndices(q.order), n)
            THEN /\ ~q.merge_invoked
                 /\ q.response = [status |-> 400, error |-> "MergeOrderMismatch",
                                  file |-> NoPath]
          ELSE /\ q.merge_invoked
               /\ Len(q.merge_args) = n
               /\ \A k \in 1..n :
                    q.merge_args[k] = q.staged[OrderIndices(q.order)[k] + 1]
               /\ \A p \in Range(q.staged) :
                    Cardinality({k \in 1..n : q.merge_args[k] = p}) = 1

C7_Witness ==
  \E r \in Reqs :
    /\ req[r].pc = "done" /\ req[r].merge_invoked
    /\ req[r].order = <<"2", ",", "0", ",", " ", "1">>
    /\ req[r].merge_args # req[r].staged
    /\ req[r].response.status = 200

\* The token a /process request asks for: the override if there is one, else
\* what the resolver makes of the message.
RequestedToken(q) ==
  IF q.given_command # NoCommand THEN q.given_command
  ELSE ExtractCommandFromUser(q.message)

\* C8: the Processing Engine is never invoked with a token outside its
\* supported set; a /process request whose token (resolved, or overridden and
\* used as it is) is not supported fails with UnknownCommand (400) before any
\* engine invocation.
C8_OnlySupportedTokens ==
  \A r \in Reqs :
    LET q == req[r]
    IN /\ q.engine_invoked => q.engine_token \in function_map
       /\ q.engine_invoked /\ q.given_command # NoCommand
            => q.engine_token = q.given_command
       /\ Arrived(r) /\ q.kind = "process" /\ ValidProcessUpload(q)
            /\ (q.given_command # NoCommand
                \/ (~NoVerb(q.message) /\ RequestedToken(q) # NotFound))
            /\ RequestedToken(q) \notin function_map
          => /\ q.pc = "done"
             /\ q.response = [status |-> 400, error |-> "UnknownCommand",
                              file |-> NoPath]
             /\ ~q.engine_invoked

C8_Witness ==
  \E r \in Reqs :
    /\ req[r].given_command = "rm-bg"
    /\ req[r].response.error = "UnknownCommand"
    /\ ~req[r].engine_invoked

\* t contains v as a whole phrase: an occurrence with a word boundary on
\* either side.
ContainsPhrase(t, v) ==
  \E i \in 0..(Len(t) - Len(v)) :
    /\ SubSeq(t, i + 1, i + Len(v)) = v
    /\ IsBoundary(t, i)
    /\ IsBoundary(t, i + Len(v))

\* The bare tokens the message contains as whole phrases.
BareTokens(t) == {tok \in Tokens : ContainsPhrase(t, TokenText(tok))}

\* C9, as stated: a message that is, or contains as a whole phrase, a bare
\* canonical token (and no other) resolves to exactly that token.
C9_BareTokenResolves ==
  "resolve" \in called =>
    LET bare == BareTokens(Lower(text))
    IN \A tok \in Tokens : bare = {tok} => resolved = tok

\* C9, amended: a message equal to a bare canonical token resolves to that
\* token; a message that contains one (and no other) as a whole phrase
\* resolves to it provided no descriptive-phrase rule matches the message.
C9_BareTokenResolvesUnlessDescribed ==
  "resolve" \in called =>
    LET t == Lower(text)
        bare == BareTokens(t)
        described ==
          \E k \in 1..Len(DescriptiveRules) : Search(DescriptiveRules[k][1], t)
    IN \A tok \in Tokens :
         /\ Lower(Strip(text)) = TokenText(tok) => resolved = tok
         /\ bare = {tok} /\ ~described => resolved = tok

C9_Witness ==
  /\ "resolve" \in called
  /\ text = JoinWords(<<w_hello, w_merge>>)
  /\ BareTokens(Lower(text)) = {"merge"}
  /\ resolved = "merge"

\* C10: resolve lower-cases the text and returns the token of the earliest
\* rule of the table that matches it (so a descriptive rule wins over a
\* power-user rule that also matches), and NotFound exactly when none does.
C10_FirstMatchWins ==
  "resolve" \in called =>
    LET t == Lower(text)
        hits == {k \in 1..Len(PHRASE_TO_CMD) : Search(PHRASE_TO_CMD[k][1], t)}
    IN IF hits = {} THEN resolved = NotFound
       ELSE /\ resolved # NotFound
            /\ resolved = PHRASE_TO_CMD[CHOOSE k \in hits : \A j \in hits : k <= j][2]

C10_Witness ==
  /\ "resolve" \in called
  /\ text = JoinWords(<<w_enhance, w_merge>>)
  /\ Search(PowerUser("merge")[1], Lower(text))
  /\ resolved = "ai enhance"

=============================================================================
